---- MODULE Spec2Model ----
(***************************************************************************)
(* Bulk-Renamer (src/bulk-renamer.py): the renaming engine                 *)
(* RenamingEngine.process, the file table FileTableModel (load_directory,  *)
(* update_previews, the colouring in data) and MainWindow.execute_rename.  *)
(*                                                                         *)
(* A Python str is a sequence of one-character strings: "a.txt" is         *)
(* <<"a", ".", "t", "x", "t">>.  Positions named pos/lo/hi are Python's    *)
(* 0-based offsets; TLA+ sequences are indexed from 1.                     *)
(***************************************************************************)
EXTENDS Integers, Sequences, FiniteSets, TLC

(***************************************************************************)
(* Python str primitives used by the engine.                               *)
(***************************************************************************)
Min(a, b) == IF a < b THEN a ELSE b

Max(a, b) == IF a > b THEN a ELSE b

\* Python's normalisation of a slice bound i for a sequence of length n.
ClampIndex(i, n) == IF i < 0 THEN Max(i + n, 0) ELSE Min(i, n)

\* s[lo:hi]
PySlice(s, lo, hi) ==
  LET a == ClampIndex(lo, Len(s))
      b == ClampIndex(hi, Len(s))
  IN  IF a >= b THEN <<>> ELSE SubSeq(s, a + 1, b)

\* s[lo:]
SliceFrom(s, lo) == PySlice(s, lo, Len(s))

\* s[:hi]
SliceTo(s, hi) == PySlice(s, 0, hi)

\* s[::-1]
Reverse(s) == [i \in 1..Len(s) |-> s[Len(s) + 1 - i]]

Lowers ==
  <<"a", "b", "c", "d", "e", "f", "g", "h", "i", "j", "k", "l", "m",
    "n", "o", "p", "q", "r", "s", "t", "u", "v", "w", "x", "y", "z">>

Uppers ==
  <<"A", "B", "C", "D", "E", "F", "G", "H", "I", "J", "K", "L", "M",
    "N", "O", "P", "Q", "R", "S", "T", "U", "V", "W", "X", "Y", "Z">>

Digits == <<"0", "1", "2", "3", "4", "5", "6", "7", "8", "9">>

Range(s) == {s[i] : i \in 1..Len(s)}

IsLower(c) == c \in Range(Lowers)

IsUpper(c) == c \in Range(Uppers)

IsCased(c) == IsLower(c) \/ IsUpper(c)

IsDigit(c) == c \in Range(Digits)

IndexIn(c, s) == CHOOSE i \in 1..Len(s) : s[i] = c

LowerChar(c) == IF IsUpper(c) THEN Lowers[IndexIn(c, Uppers)] ELSE c

UpperChar(c) == IF IsLower(c) THEN Uppers[IndexIn(c, Lowers)] ELSE c

\* str.lower()
StrLower(s) == [i \in 1..Len(s) |-> LowerChar(s[i])]

\* str.upper()
StrUpper(s) == [i \in 1..Len(s) |-> UpperChar(s[i])]

\* a title case that upper-cases the first character of each word set off by
\* spaces and leaves every other character as it is
StrTitleWords(s) ==
  [i \in 1..Len(s) |-> IF i > 1 /\ s[i - 1] # " " THEN s[i] ELSE UpperChar(s[i])]

\* str.title(): a cased character is upper-cased when the character before
\* it is not cased (or there is none) and lower-cased when it is.
StrTitle(s) ==
  [i \in 1..Len(s) |->
     IF i > 1 /\ IsCased(s[i - 1]) THEN LowerChar(s[i]) ELSE UpperChar(s[i])]

\* s.startswith(p)
StartsWith(s, p) == Len(p) <= Len(s) /\ SubSeq(s, 1, Len(p)) = p

\* does old occur in s at 0-based offset pos
OccursAt(s, old, pos) ==
  pos + Len(old) <= Len(s) /\ SubSeq(s, pos + 1, pos + Len(old)) = old

RECURSIVE ReplaceFrom(_, _, _, _)
\* the part of s.replace(old, new) produced from offset pos on (old non-empty)
ReplaceFrom(s, old, new, pos) ==
  IF pos >= Len(s) THEN <<>>
  ELSE (IF OccursAt(s, old, pos) THEN new ELSE <<s[pos + 1]>>)
       \o ReplaceFrom(s, old, new, IF OccursAt(s, old, pos) THEN pos + Len(old) ELSE pos + 1)

\* s.replace(old, new), leftmost non-overlapping occurrences, old non-empty
StrReplace(s, old, new) == ReplaceFrom(s, old, new, 0)

\* s.translate(str.maketrans("", "", chars)): delete every character of chars
DeleteChars(s, chars) == SelectSeq(s, LAMBDA c : c \notin Range(chars))

RECURSIVE NatToStr(_)
\* str(n) for n >= 0
NatToStr(n) ==
  IF n < 10 THEN <<Digits[n + 1]>> ELSE NatToStr(n \div 10) \o <<Digits[(n % 10) + 1]>>

\* str(n)
IntToStr(n) == IF n < 0 THEN <<"-">> \o NatToStr(0 - n) ELSE NatToStr(n)

Zeros(k) == [i \in 1..k |-> "0"]

\* s.zfill(width): pad with zeros on the left, after a leading sign
ZFill(s, width) ==
  IF Len(s) >= width THEN s
  ELSE IF s # <<>> /\ s[1] \in {"+", "-"}
       THEN <<s[1]>> \o Zeros(width - Len(s)) \o Tail(s)
       ELSE Zeros(width - Len(s)) \o s

\* name.rfind("."): 0-based offset of the last dot, -1 when there is none
RFindDot(name) ==
  IF \E i \in 1..Len(name) : name[i] = "."
  THEN (CHOOSE i \in 1..Len(name) :
          name[i] = "." /\ \A j \in (i + 1)..Len(name) : name[j] # ".") - 1
  ELSE -1

\* pathlib.PurePath.suffix of a final path component: the text from the last
\* dot on, unless that dot is the first or the last character of the name
PathSuffix(name) ==
  LET i == RFindDot(name)
  IN  IF 0 < i /\ i < Len(name) - 1 THEN SliceFrom(name, i) ELSE <<>>

\* pathlib.PurePath.stem
PathStem(name) ==
  LET i == RFindDot(name)
  IN  IF 0 < i /\ i < Len(name) - 1 THEN SliceTo(name, i) ELSE name

(***************************************************************************)
(* Python's re module, as far as the engine uses it: re.escape, re.sub and *)
(* Pattern.sub.  A compiled pattern is a sequence of tokens                *)
(* [any, c, star]: one character (any = TRUE is "."), optionally starred.  *)
(* Patterns are written over ordinary characters, ".", "*", "(" and the    *)
(* escapes re.escape produces; a replacement template is written over      *)
(* ordinary characters and "\".                                            *)
(***************************************************************************)
Backslash == "\\"

\* the characters re.escape puts a backslash in front of
ReSpecialChars ==
  {"(", ")", "[", "]", "{", "}", "?", "*", "+", "-", "|", "^", "$",
   Backslash, ".", "&", "~", "#", " "}

RECURSIVE ReEscape(_)
\* re.escape(s)
ReEscape(s) ==
  IF s = <<>> THEN <<>>
  ELSE (IF Head(s) \in ReSpecialChars THEN <<Backslash, Head(s)>> ELSE <<Head(s)>>)
       \o ReEscape(Tail(s))

\* the pattern of the "Simple" mode: re.escape(pattern).replace(r"\*", ".*")
SimplePattern(pattern) == StrReplace(ReEscape(pattern), <<Backslash, "*">>, <<".", "*">>)

IsAlnum(c) == IsCased(c) \/ IsDigit(c)

\* one step of re.compile(pat) at offset i, c being the character there and
\* toks the tokens read so far: [ok |-> FALSE] is re.error.  An unmatched
\* parenthesis, a "*" with nothing to repeat, a repeated "*" and a trailing
\* backslash are errors; a backslash before a non-alphanumeric character
\* makes it a literal.
RegexStepOn(pat, i, toks, c) ==
  CASE c = Backslash ->
         IF i + 1 >= Len(pat) \/ IsAlnum(pat[i + 2])
         THEN [ok |-> FALSE, i |-> i, toks |-> <<>>]
         ELSE [ok |-> TRUE, i |-> i + 2,
               toks |-> Append(toks, [any |-> FALSE, c |-> pat[i + 2], star |-> FALSE])]
    [] c = "*" ->
         IF toks = <<>> \/ toks[Len(toks)].star
         THEN [ok |-> FALSE, i |-> i, toks |-> <<>>]
         ELSE [ok |-> TRUE, i |-> i + 1,
               toks |-> [toks EXCEPT ![Len(toks)] = [@ EXCEPT !.star = TRUE]]]
    [] c \in {"(", ")"} -> [ok |-> FALSE, i |-> i, toks |-> <<>>]
    [] c = "." ->
         [ok |-> TRUE, i |-> i + 1,
          toks |-> Append(toks, [any |-> TRUE, c |-> ".", star |-> FALSE])]
    [] OTHER ->
         [ok |-> TRUE, i |-> i + 1,
          toks |-> Append(toks, [any |-> FALSE, c |-> c, star |-> FALSE])]

RegexStep(pat, i, toks) == RegexStepOn(pat, i, toks, pat[i + 1])

RECURSIVE ParseFrom(_, _)
\* re.compile(pat) continued after the step that gave st
ParseFrom(pat, st) ==
  IF ~st.ok \/ st.i >= Len(pat) THEN [ok |-> st.ok, toks |-> st.toks]
  ELSE ParseFrom(pat, RegexStep(pat, st.i, st.toks))

\* re.compile(pat): [ok, toks]
ParseRegex(pat) == ParseFrom(pat, [ok |-> TRUE, i |-> 0, toks |-> <<>>])

\* the escapes of a replacement template that stand for one control character
TemplateEscapes == {"a", "b", "f", "n", "r", "t", "v"}

\* 0-based offset of the first ">" of s at or after offset i, -1 when none
FindClose(s, i) ==
  IF \E j \in (i + 1)..Len(s) : s[j] = ">"
  THEN (CHOOSE j \in (i + 1)..Len(s) :
          s[j] = ">" /\ \A k \in (i + 1)..(j - 1) : s[k] # ">") - 1
  ELSE -1

\* \g<name> in a replacement template for a pattern without groups, name
\* being the text between "<" and the ">" at offset close: \g<0> is the whole
\* match, any other number a group that does not exist (re.error), an
\* identifier an unknown group name (IndexError)
GroupStep(i, parts, close, name) ==
  IF close = -1 \/ name = <<>> THEN [exc |-> "re.error", i |-> i, parts |-> <<>>]
  ELSE IF \A k \in 1..Len(name) : IsDigit(name[k])
  THEN IF \A k \in 1..Len(name) : name[k] = "0"
       THEN [exc |-> "none", i |-> close + 1, parts |-> Append(parts, [lit |-> FALSE, c |-> ""])]
       ELSE [exc |-> "re.error", i |-> i, parts |-> <<>>]
  ELSE IF ~IsDigit(name[1]) /\ \A k \in 1..Len(name) : IsAlnum(name[k]) \/ name[k] = "_"
  THEN [exc |-> "IndexError", i |-> i, parts |-> <<>>]
  ELSE [exc |-> "re.error", i |-> i, parts |-> <<>>]

\* the escape \d at offset i of the template repl
EscapeStep(repl, i, parts, d) ==
  CASE d = "g" ->
         IF i + 2 >= Len(repl) \/ repl[i + 3] # "<"
         THEN [exc |-> "re.error", i |-> i, parts |-> <<>>]
         ELSE GroupStep(i, parts, FindClose(repl, i + 3),
                        PySlice(repl, i + 3, FindClose(repl, i + 3)))
    [] d = Backslash ->
         [exc |-> "none", i |-> i + 2, parts |-> Append(parts, [lit |-> TRUE, c |-> Backslash])]
    [] d \in TemplateEscapes ->
         [exc |-> "none", i |-> i + 2,
          parts |-> Append(parts, [lit |-> TRUE, c |-> Backslash \o d])]
    [] IsAlnum(d) /\ d \notin TemplateEscapes /\ d # "g" ->
         [exc |-> "re.error", i |-> i, parts |-> <<>>]
    [] OTHER ->
         [exc |-> "none", i |-> i + 2,
          parts |-> parts \o <<[lit |-> TRUE, c |-> Backslash], [lit |-> TRUE, c |-> d]>>]

\* one step of re's parse of the replacement template repl at offset i: parts
\* is a sequence of [lit, c], lit = FALSE standing for the whole match.  exc
\* is "none", "re.error" (a trailing backslash, a reference to a group that
\* does not exist, a bad escape) or "IndexError"; an escaped letter that
\* stands for a control character is kept as the two-character string "\d"
TemplateStep(repl, i, parts) ==
  IF repl[i + 1] # Backslash
  THEN [exc |-> "none", i |-> i + 1, parts |-> Append(parts, [lit |-> TRUE, c |-> repl[i + 1]])]
  ELSE IF i + 1 >= Len(repl) THEN [exc |-> "re.error", i |-> i, parts |-> <<>>]
  ELSE EscapeStep(repl, i, parts, repl[i + 2])

RECURSIVE TemplateFrom(_, _)
\* the parse of the template continued after the step that gave st
TemplateFrom(repl, st) ==
  IF st.exc # "none" \/ st.i >= Len(repl) THEN [exc |-> st.exc, parts |-> st.parts]
  ELSE TemplateFrom(repl, TemplateStep(repl, st.i, st.parts))

\* the parse of the replacement template repl: [exc, parts]
ParseTemplate(repl) == TemplateFrom(repl, [exc |-> "none", i |-> 0, parts |-> <<>>])

RECURSIVE Expand(_, _)
\* the replacement text for one match
Expand(parts, matched) ==
  IF parts = <<>> THEN <<>>
  ELSE (IF Head(parts).lit THEN <<Head(parts).c>> ELSE matched) \o Expand(Tail(parts), matched)

\* does token t accept character ch (ic: re.IGNORECASE)
AtomOk(t, ch, ic) ==
  IF t.any THEN ch # "\n"
  ELSE IF ic THEN LowerChar(ch) = LowerChar(t.c) ELSE ch = t.c

RECURSIVE MaxRun(_, _, _, _)
\* how many characters of s from offset p on token t accepts in a row
MaxRun(t, s, p, ic) ==
  IF p < Len(s) /\ AtomOk(t, s[p + 1], ic) THEN 1 + MaxRun(t, s, p + 1, ic) ELSE 0

RECURSIVE Match(_, _, _, _, _)
RECURSIVE StarTry(_, _, _, _, _, _, _)
\* the end offset of the match of toks at offset p of s that the backtracking
\* matcher finds first (a starred token is greedy), -1 when there is none;
\* a match ending at offset forbid is rejected (must_advance)
Match(toks, s, p, forbid, ic) ==
  IF toks = <<>> THEN (IF p = forbid THEN -1 ELSE p)
  ELSE LET t == Head(toks) IN
    IF t.star THEN StarTry(t, Tail(toks), s, p, MaxRun(t, s, p, ic), forbid, ic)
    ELSE IF p < Len(s) /\ AtomOk(t, s[p + 1], ic)
         THEN Match(Tail(toks), s, p + 1, forbid, ic)
         ELSE -1

\* the starred token t taking k characters, then k - 1, ... down to none
StarTry(t, rest, s, p, k, forbid, ic) ==
  IF k < 0 THEN -1
  ELSE IF Match(rest, s, p + k, forbid, ic) # -1
       THEN Match(rest, s, p + k, forbid, ic)
       ELSE StarTry(t, rest, s, p, k - 1, forbid, ic)

\* the match at offset b in a search that started at offset pos: after an
\* empty match the next match may not be empty at the same offset
\* (mustAdvance)
MatchAt(toks, s, b, pos, mustAdvance, ic) ==
  Match(toks, s, b, IF mustAdvance /\ b = pos THEN pos ELSE -1, ic)

\* the offsets from pos on at which there is a match
Starts(toks, s, pos, mustAdvance, ic) ==
  {b \in pos..Len(s) : MatchAt(toks, s, b, pos, mustAdvance, ic) # -1}

\* the least element of S, -1 when S is empty
FirstOf(S) == IF S = {} THEN -1 ELSE CHOOSE x \in S : \A y \in S : x <= y

\* [b, e]: the match starting at offset b and its end
MatchFrom(toks, s, pos, mustAdvance, ic, b) ==
  [b |-> b, e |-> IF b = -1 THEN -1 ELSE MatchAt(toks, s, b, pos, mustAdvance, ic)]

\* the next match searched from offset pos on, the leftmost one; b = -1 when
\* there is none
NextMatch(toks, s, pos, mustAdvance, ic) ==
  MatchFrom(toks, s, pos, mustAdvance, ic, FirstOf(Starts(toks, s, pos, mustAdvance, ic)))

RECURSIVE SubFrom(_, _, _, _, _, _)
\* the substitution loop of Pattern.sub: i is the offset up to which s has
\* been copied and m the match found next
SubFrom(toks, parts, s, i, ic, m) ==
  IF m.b = -1 THEN SliceFrom(s, i)
  ELSE PySlice(s, i, m.b) \o Expand(parts, PySlice(s, m.b, m.e))
         \o SubFrom(toks, parts, s, m.e, ic, NextMatch(toks, s, m.e, m.e = m.b, ic))

\* Pattern.sub for the compiled pattern toks and the parsed template parts
SubLoop(toks, parts, s, ic) ==
  SubFrom(toks, parts, s, 0, ic, NextMatch(toks, s, 0, FALSE, ic))

\* the template as Pattern.sub reads it: parsed only when it holds a backslash
TemplateOf(repl) ==
  IF Backslash \in Range(repl)
  THEN ParseTemplate(repl)
  ELSE [exc |-> "none", parts |-> [k \in 1..Len(repl) |-> [lit |-> TRUE, c |-> repl[k]]]]

\* Pattern.sub given the compiled pattern p and the parsed template t
SubWith(p, t, s, ic) ==
  IF ~p.ok THEN [exc |-> "re.error", val |-> <<>>]
  ELSE IF t.exc # "none" THEN [exc |-> t.exc, val |-> <<>>]
  ELSE [exc |-> "none", val |-> SubLoop(p.toks, t.parts, s, ic)]

\* re.sub(pattern, repl, s) / re.compile(pattern, flags).sub(repl, s): the
\* pattern is compiled first, then the template is parsed, then every match
\* is replaced
ReSub(pattern, repl, s, ic) == SubWith(ParseRegex(pattern), TemplateOf(repl), s, ic)

(***************************************************************************)
(* RenameConfig and RenamingEngine.process.                                *)
(***************************************************************************)
\* RenameConfig.__init__: the configuration a new RenameConfig holds
DefaultConfig ==
  [regex_match |-> <<>>, regex_replace |-> <<>>, regex_simple |-> FALSE,
   name_mode |-> "Keep", name_fixed |-> <<>>,
   replace_str |-> <<>>, replace_with |-> <<>>, replace_case |-> FALSE,
   case_mode |-> "Same",
   remove_first |-> 0, remove_last |-> 0, remove_from |-> 0, remove_to |-> 0,
   remove_chars |-> <<>>,
   add_prefix |-> <<>>, add_suffix |-> <<>>, add_insert |-> <<>>, add_at_pos |-> 0,
   num_mode |-> "None", num_start |-> 1, num_incr |-> 1, num_pad |-> 0,
   num_sep |-> <<>>, num_at |-> 0,
   ext_mode |-> "Same", ext_fixed |-> <<>>]

\* the pattern handed to re.sub
RegexPattern(config) ==
  IF config.regex_simple THEN SimplePattern(config.regex_match) ELSE config.regex_match

\* try: stem = re.sub(...) except re.error: pass
ExceptReError(r, stem) == IF r.exc = "re.error" THEN [exc |-> "none", val |-> stem] ELSE r

\* --- 1. RegEx: an invalid pattern or a template that is a re.error leaves
\* the stem as it is; any other exception leaves process
RegexStage(config, stem) ==
  IF config.regex_match = <<>> THEN [exc |-> "none", val |-> stem]
  ELSE ExceptReError(ReSub(RegexPattern(config), config.regex_replace, stem, FALSE), stem)

\* --- 2. Name
NameStage(config, stem) ==
  CASE config.name_mode = "Remove" -> <<>>
    [] config.name_mode = "Fixed" -> config.name_fixed
    [] config.name_mode = "Reverse" -> Reverse(stem)
    [] OTHER -> stem

\* --- 3. Replace: str.replace when "Match Case" is set, else the escaped
\* search string compiled with re.IGNORECASE and Pattern.sub, outside any try
ReplaceStage(config, stem) ==
  IF config.replace_str = <<>> THEN [exc |-> "none", val |-> stem]
  ELSE IF config.replace_case
       THEN [exc |-> "none", val |-> StrReplace(stem, config.replace_str, config.replace_with)]
       ELSE ReSub(ReEscape(config.replace_str), config.replace_with, stem, TRUE)

\* --- 5. Remove, first n
RemoveFirst(config, stem) ==
  IF config.remove_first > 0 THEN SliceFrom(stem, config.remove_first) ELSE stem

\* the last-n removal without the test that n is positive: stem[:-0] is ""
RemoveLastUnguarded(config, stem) ==
  IF Len(stem) > config.remove_last
  THEN SliceTo(stem, 0 - config.remove_last)
  ELSE stem

\* --- 5. Remove, last n
RemoveLast(config, stem) ==
  IF config.remove_last > 0 /\ Len(stem) > config.remove_last
  THEN SliceTo(stem, 0 - config.remove_last)
  ELSE stem

\* stem[:start] + stem[end:]
CutSlice(stem, start, end) ==
  IF start < Len(stem) THEN SliceTo(stem, start) \o SliceFrom(stem, end) ELSE stem

\* --- 5. Remove, from/to range
RemoveRange(config, stem) ==
  IF config.remove_from > 0 \/ config.remove_to > 0
  THEN CutSlice(stem, Max(0, config.remove_from - 1),
                IF config.remove_to > 0 THEN config.remove_to ELSE Len(stem))
  ELSE stem

\* --- 5. Remove, specific characters
RemoveChars(config, stem) ==
  IF config.remove_chars # <<>> THEN DeleteChars(stem, config.remove_chars) ELSE stem

\* --- 7. Add, prefix
AddPrefix(config, stem) ==
  IF config.add_prefix # <<>> THEN config.add_prefix \o stem ELSE stem

\* --- 7. Add, suffix
AddSuffix(config, stem) ==
  IF config.add_suffix # <<>> THEN stem \o config.add_suffix ELSE stem

\* --- 7. Add, insert at add_at_pos
AddInsert(config, stem) ==
  IF config.add_insert # <<>>
  THEN IF config.add_at_pos >= Len(stem)
       THEN stem \o config.add_insert
       ELSE SliceTo(stem, config.add_at_pos) \o config.add_insert
              \o SliceFrom(stem, config.add_at_pos)
  ELSE stem

\* --- 7. Add
AddStage(config, stem) == AddInsert(config, AddSuffix(config, AddPrefix(config, stem)))

\* a numbering that forgets the position of the file
NumValFlat(config, index) == config.num_start + config.num_incr

\* num_val = config.num_start + (index * config.num_incr)
NumVal(config, index) == config.num_start + (index * config.num_incr)

\* num_str = str(num_val).zfill(config.num_pad)
NumStr(config, index) == ZFill(IntToStr(NumVal(config, index)), config.num_pad)

\* full_num_str: the separator before the number for Suffix, after it otherwise
FullNumStr(config, index) ==
  IF config.num_mode = "Suffix"
  THEN config.num_sep \o NumStr(config, index)
  ELSE NumStr(config, index) \o config.num_sep

\* --- 10. Numbering
NumberingStage(config, stem, index) ==
  IF config.num_mode # "None"
  THEN CASE config.num_mode = "Prefix" -> FullNumStr(config, index) \o stem
         [] config.num_mode = "Suffix" -> stem \o FullNumStr(config, index)
         [] config.num_mode = "Insert" ->
              SliceTo(stem, config.num_at) \o FullNumStr(config, index)
                \o SliceFrom(stem, config.num_at)
         [] OTHER -> stem
  ELSE stem

\* --- 4. Case, applied to the resulting stem
CaseStage(config, stem) ==
  CASE config.case_mode = "Lower" -> StrLower(stem)
    [] config.case_mode = "Upper" -> StrUpper(stem)
    [] config.case_mode = "Title" -> StrTitle(stem)
    [] OTHER -> stem

\* --- 11. Extension
ExtStage(config, ext) ==
  CASE config.ext_mode = "Lower" -> StrLower(ext)
    [] config.ext_mode = "Upper" -> StrUpper(ext)
    [] config.ext_mode = "Remove" -> <<>>
    [] config.ext_mode = "Fixed" ->
         IF ~StartsWith(config.ext_fixed, <<".">>)
         THEN <<".">> \o config.ext_fixed
         ELSE config.ext_fixed
    [] OTHER -> ext

\* the stages 5, 7, 10 and 4, in the order process runs them
LateStages(config, stem, index) ==
  CaseStage(config,
    NumberingStage(config,
      AddStage(config,
        RemoveChars(config,
          RemoveRange(config,
            RemoveLast(config,
              RemoveFirst(config, stem))))),
      index))

\* the stages after Replace run over the whole name instead of the stem
AfterReplaceWholeName(config, index, ext, r3) ==
  IF r3.exc # "none" THEN [exc |-> r3.exc, val |-> <<>>]
  ELSE [exc |-> "none",
        val |-> LateStages(config, r3.val \o ext, index) \o ExtStage(config, <<>>)]

\* process from "--- 5. Remove" on, r3 being the outcome of the Replace stage
AfterReplace(config, index, ext, r3) ==
  IF r3.exc # "none" THEN [exc |-> r3.exc, val |-> <<>>]
  ELSE [exc |-> "none", val |-> LateStages(config, r3.val, index) \o ExtStage(config, ext)]

\* process from "--- 2. Name" on, r1 being the outcome of the RegEx stage
AfterRegex(config, index, ext, r1) ==
  IF r1.exc # "none" THEN [exc |-> r1.exc, val |-> <<>>]
  ELSE AfterReplace(config, index, ext, ReplaceStage(config, NameStage(config, r1.val)))

\* RenamingEngine.process(original_name, config, index): [exc |-> "none",
\* val |-> the returned string], or [exc |-> e] when the call ends in the
\* exception e
Process(original_name, config, index) ==
  AfterRegex(config, index, PathSuffix(original_name),
             RegexStage(config, PathStem(original_name)))

(***************************************************************************)
(* The program state.  One directory is selected in the tree; a path is    *)
(* modelled by its final component.  FileItem.size and FileItem.modified   *)
(* are display-only and left out.                                          *)
(***************************************************************************)
VARIABLES
  fs,             \* the selected directory: a set of [name, id], id the name the file had at the start
  os_name,        \* os.name: "posix" or "nt"
  files,          \* FileTableModel.files: sequence of FileItem
  config,         \* MainWindow.config, as last scraped from the widgets
  uncaught,       \* the exception the last handler ended in, "none" if it returned
  pc,             \* "idle", or "renaming" inside the loop of execute_rename
  row,            \* execute_rename: position in files of the next item of the loop
  success_count,  \* execute_rename: success_count
  errors,         \* execute_rename: errors, as [name, error]
  renames,        \* the os.rename calls issued by the running execute_rename
  fs0,            \* the directory as it was when the running execute_rename began
  runs            \* how many times execute_rename has run its loop

vars ==
  <<fs, os_name, files, config, uncaught, pc, row, success_count, errors, renames, fs0, runs>>

\* the window is followed until execute_rename has returned this many times
MaxRuns == 1

\* the largest number of files in the directory at the start
MaxFiles == 3

\* the largest number of files in the directory in the runs of the engine alone
MaxBatch == 2

\* the largest value given to the count and position spin boxes
MaxCount == 2

\* the largest value given to the From and To spin boxes
MaxPos == 7

\* file names the directory may hold at the start
Names ==
  {<<"a", ".", "t", "x", "t">>,
   <<"b", ".", "t", "x", "t">>,
   <<"a", "a", ".", "t", "x", "t">>,
   <<"a", "b", "c", "d", "e", "f">>}

\* file names for the runs of the engine alone
EngineNames ==
  {<<"a", ".", "t", "x", "t">>,
   <<"a", "b", "c", "d", "e", "f">>,
   <<"a", "r", "c", "h", "i", "v", "e", ".", "t", "a", "r", ".", "g", "z">>,
   <<".", "g", "i", "t", "i", "g", "n", "o", "r", "e">>,
   <<"a", ".">>,
   <<"a", "B", " ", "c", "_", "d", "1", "e", ".", "T", "x", "T">>}

Directories(names, n) == {d \in SUBSET names : Cardinality(d) <= n}

NameSet(dir) == {f.name : f \in dir}

\* FileItem(path=entry, original_name=entry.name, new_name=entry.name, ...),
\* status keeping the dataclass default "OK"
FileItem(name) ==
  [path |-> name, original_name |-> name, new_name |-> name, status |-> "OK"]

\* what the loop over p.iterdir() in load_directory can leave in self.files:
\* the files of the directory in the order the system lists them, which is
\* any order, or nothing when iterdir raises PermissionError
Listings(dir) ==
  {<<>>} \cup
  {[i \in 1..Cardinality(dir) |-> FileItem(s[i])] :
     s \in {t \in [1..Cardinality(dir) -> NameSet(dir)] :
              \A i, j \in 1..Cardinality(dir) : i # j => t[i] # t[j]}}

\* the position of the first result that is an exception, Len(res) + 1 when
\* there is none
FirstRaising(res) ==
  IF \A i \in 1..Len(res) : res[i].exc = "none" THEN Len(res) + 1
  ELSE CHOOSE i \in 1..Len(res) :
         res[i].exc # "none" /\ \A j \in 1..(i - 1) : res[j].exc = "none"

\* the loop of update_previews, res[i] being the outcome of process for the
\* item at position i: the exception at position stop ends the loop, the
\* items before it updated and the others as they were
AssignUntil(fl, res, stop) ==
  [files |-> [i \in 1..Len(fl) |->
                IF i < stop THEN [fl[i] EXCEPT !.new_name = res[i].val] ELSE fl[i]],
   exc |-> IF stop > Len(fl) THEN "none" ELSE res[stop].exc]

\* the loop of update_previews given the outcomes res of process
AssignAll(fl, res) == AssignUntil(fl, res, FirstRaising(res))

\* FileTableModel.update_previews: new_name of each item in turn, index being
\* i + 1 for enumerate's 0-based i
UpdatePreviews(fl, cfg) ==
  AssignAll(fl, [i \in 1..Len(fl) |-> Process(fl[i].original_name, cfg, i)])

\* a brush chosen without the comparison of the two names
ForegroundRoleAlways(fl, i) ==
  IF Cardinality({j \in 1..Len(fl) : fl[j].new_name = fl[i].new_name}) > 1
  THEN "red"
  ELSE "green"

\* FileTableModel.data, ForegroundRole of the "New Name" column: the brush
\* of the item at position i ("none": no brush)
ForegroundRole(fl, i) ==
  IF fl[i].new_name # fl[i].original_name
  THEN IF Cardinality({j \in 1..Len(fl) : fl[j].new_name = fl[i].new_name}) > 1
       THEN "red"
       ELSE "green"
  ELSE "none"

\* what the table shows of the plan for the item at position i: the red brush
\* marks a collision, the green one a pending rename, no brush an unchanged name
PlanStatus(fl, i) ==
  CASE ForegroundRole(fl, i) = "red" -> "Collision"
    [] ForegroundRole(fl, i) = "green" -> "Pending"
    [] OTHER -> "Unchanged"

\* FileTableModel.data, DisplayRole of the "Status" column
DisplayStatus(fl, i) == fl[i].status

\* characters a file name cannot hold on Windows
NtInvalidChars == {"<", ">", ":", "\"", "|", "?", "*"}

\* os.rename(old_path, old_path.parent / dst) raises: the source is gone; the
\* target is the directory itself ("" and "." join to the parent) or its
\* parent; on Windows the target exists or holds an invalid character
RenameError(dir, os, src, dst) ==
  CASE src \notin NameSet(dir) -> "FileNotFoundError"
    [] dst \in {<<>>, <<".">>, <<".", ".">>} -> "OSError"
    [] os = "nt" /\ Range(dst) \cap NtInvalidChars # {} -> "OSError"
    [] os = "nt" /\ dst \in NameSet(dir) -> "FileExistsError"
    [] OTHER -> "none"

\* the directory after a successful os.rename: on POSIX a file already at
\* the target is replaced silently
RenameEffect(dir, src, dst) ==
  {f \in dir : f.name \notin {src, dst}}
    \cup {[name |-> dst, id |-> g.id] : g \in {f \in dir : f.name = src}}

(***************************************************************************)
(* Widget settings.  update_config_from_ui copies every widget into        *)
(* self.config; a setting is written as the RenameConfig it produces.      *)
(***************************************************************************)
\* the settings tried in the runs of the whole window
UiConfigs ==
  {DefaultConfig,
   [DefaultConfig EXCEPT !.name_mode = "Fixed", !.name_fixed = <<"a">>],
   [DefaultConfig EXCEPT !.name_mode = "Remove"],
   [DefaultConfig EXCEPT !.num_mode = "Suffix", !.num_pad = 2, !.num_sep = <<"_">>],
   [DefaultConfig EXCEPT !.add_prefix = <<"a">>],
   [DefaultConfig EXCEPT !.add_prefix = <<"?">>],
   [DefaultConfig EXCEPT !.replace_str = <<"a">>, !.replace_with = <<Backslash>>]}

RegexConfigs ==
  {[DefaultConfig EXCEPT !.regex_match = m, !.regex_replace = r, !.regex_simple = b] :
     m \in {<<"a">>, <<"(">>, <<"*">>, <<"a", "*">>, <<".">>},
     r \in {<<"x">>, <<Backslash>>, <<Backslash, "1">>,
            <<Backslash, "g", "<", "n", ">">>, <<Backslash, "g", "<", "0", ">">>},
     b \in BOOLEAN}

NameConfigs ==
  {[DefaultConfig EXCEPT !.name_mode = m, !.name_fixed = f] :
     m \in {"Keep", "Remove", "Fixed", "Reverse"}, f \in {<<>>, <<"x">>}}

ReplaceConfigs ==
  {[DefaultConfig EXCEPT !.replace_str = f, !.replace_with = w, !.replace_case = b] :
     f \in {<<"a">>, <<"T">>},
     w \in {<<>>, <<"x">>, <<Backslash>>, <<Backslash, Backslash>>},
     b \in BOOLEAN}

RemoveConfigs ==
  {[DefaultConfig EXCEPT !.remove_first = a, !.remove_last = b, !.remove_chars = c] :
     a \in 0..MaxCount, b \in 0..MaxCount, c \in {<<>>, <<"a", ".">>}}
  \cup
  {[DefaultConfig EXCEPT !.remove_from = a, !.remove_to = b] : a \in 0..MaxPos, b \in 0..MaxPos}

AddConfigs ==
  {[DefaultConfig EXCEPT !.add_prefix = a, !.add_suffix = b, !.add_insert = c, !.add_at_pos = n] :
     a \in {<<>>, <<"p">>}, b \in {<<>>, <<"s">>}, c \in {<<>>, <<"-">>}, n \in 0..MaxCount}

NumberingConfigs ==
  {[DefaultConfig EXCEPT !.num_mode = m, !.num_start = a, !.num_incr = b, !.num_pad = c,
                         !.num_sep = d] :
     m \in {"Prefix", "Suffix"}, a \in {0, 1, 9}, b \in 0..MaxCount,
     c \in {0, 2}, d \in {<<>>, <<"_">>}}
  \cup
  {[DefaultConfig EXCEPT !.num_mode = "Insert", !.num_at = n, !.num_pad = c,
                         !.num_sep = <<"_">>] :
     n \in 0..MaxCount, c \in {0, 2}}

CaseConfigs ==
  {[DefaultConfig EXCEPT !.case_mode = m, !.add_suffix = a, !.num_mode = n] :
     m \in {"Same", "Lower", "Upper", "Title"},
     a \in {<<>>, <<" ", "x", "Y", "-", "z">>},
     n \in {"None", "Prefix"}}

ExtConfigs ==
  {[DefaultConfig EXCEPT !.ext_mode = m, !.ext_fixed = f, !.name_mode = n] :
     m \in {"Same", "Lower", "Upper", "Remove", "Fixed"},
     f \in {<<>>, <<"t">>, <<".", "T">>},
     n \in {"Keep", "Reverse"}}

\* the settings tried in the runs of the engine alone
EngineConfigs ==
  RegexConfigs \cup NameConfigs \cup ReplaceConfigs \cup RemoveConfigs \cup AddConfigs
    \cup NumberingConfigs \cup CaseConfigs \cup ExtConfigs

(***************************************************************************)
(* The window.                                                             *)
(***************************************************************************)
\* the table after update_previews ended as u says
Previewed(u) ==
  /\ files' = u.files
  /\ uncaught' = u.exc

\* MainWindow.__init__: no directory loaded, the default configuration
Init ==
  /\ fs \in {{[name |-> n, id |-> n] : n \in d} : d \in Directories(Names, MaxFiles)}
  /\ os_name \in {"posix", "nt"}
  /\ files = <<>>
  /\ config = DefaultConfig
  /\ uncaught = "none"
  /\ pc = "idle"
  /\ row = 0
  /\ success_count = 0
  /\ errors = <<>>
  /\ renames = <<>>
  /\ fs0 = {}
  /\ runs = 0

\* MainWindow.on_tree_clicked: load_directory, then refresh_preview
OnTreeClicked ==
  /\ pc = "idle"
  /\ runs < MaxRuns
  /\ \E fl \in Listings(fs) :
       Previewed(UpdatePreviews(fl, config))
  /\ UNCHANGED <<fs, os_name, config, pc, row, success_count, errors, renames, fs0, runs>>

\* MainWindow.refresh_preview, run by the preview timer after the widgets
\* were set to cfg: update_config_from_ui, then update_previews
RefreshPreview(cfg) ==
  /\ pc = "idle"
  /\ runs < MaxRuns
  /\ config' = cfg
  /\ Previewed(UpdatePreviews(files, cfg))
  /\ UNCHANGED <<fs, os_name, pc, row, success_count, errors, renames, fs0, runs>>

\* MainWindow.execute_rename up to the loop: some file is listed and the
\* answer to the question is Yes
ExecuteBegin ==
  /\ pc = "idle"
  /\ Len(files) > 0
  /\ runs < MaxRuns
  /\ runs' = runs + 1
  /\ pc' = "renaming"
  /\ row' = 1
  /\ success_count' = 0
  /\ errors' = <<>>
  /\ renames' = <<>>
  /\ fs0' = fs
  /\ uncaught' = "none"
  /\ UNCHANGED <<fs, os_name, files, config>>

\* the body of the loop without try: an exception of os.rename leaves the loop
RenameItemAborting(item, e) ==
  /\ renames' = Append(renames, [row |-> row, src |-> item.path, dst |-> item.new_name,
                                 existed |-> item.new_name \in NameSet(fs), error |-> e])
  /\ IF e = "none"
     THEN /\ fs' = RenameEffect(fs, item.path, item.new_name)
          /\ success_count' = success_count + 1
          /\ row' = row + 1
          /\ UNCHANGED errors
     ELSE /\ errors' = Append(errors, [name |-> item.original_name, error |-> e])
          /\ row' = Len(files) + 1
          /\ UNCHANGED <<fs, success_count>>

\* the body of the loop with "except Exception: pass": a failure is not recorded
RenameItemSilent(item, e) ==
  /\ renames' = Append(renames, [row |-> row, src |-> item.path, dst |-> item.new_name,
                                 existed |-> item.new_name \in NameSet(fs), error |-> e])
  /\ IF e = "none"
     THEN /\ fs' = RenameEffect(fs, item.path, item.new_name)
          /\ success_count' = success_count + 1
          /\ UNCHANGED errors
     ELSE UNCHANGED <<fs, success_count, errors>>
  /\ row' = row + 1

\* the body of the loop for an item whose name changes: os.rename(old_path,
\* new_path) inside try, e being the exception it raises ("none": it
\* returns); either way the loop goes on with the next item
RenameItem(item, e) ==
  /\ renames' = Append(renames, [row |-> row, src |-> item.path, dst |-> item.new_name,
                                 existed |-> item.new_name \in NameSet(fs), error |-> e])
  /\ IF e = "none"
     THEN /\ fs' = RenameEffect(fs, item.path, item.new_name)
          /\ success_count' = success_count + 1
          /\ UNCHANGED errors
     ELSE /\ errors' = Append(errors, [name |-> item.original_name, error |-> e])
          /\ UNCHANGED <<fs, success_count>>
  /\ row' = row + 1

\* a loop without the test for an unchanged name: os.rename of a file to its
\* own name returns, and the item is counted
SkipItemCounted ==
  /\ renames' = Append(renames, [row |-> row, src |-> files[row].path,
                                 dst |-> files[row].new_name, existed |-> TRUE,
                                 error |-> "none"])
  /\ success_count' = success_count + 1
  /\ row' = row + 1
  /\ UNCHANGED <<fs, errors>>

\* if item.original_name == item.new_name: continue
SkipItem ==
  /\ row' = row + 1
  /\ UNCHANGED <<fs, success_count, errors, renames>>

\* one iteration of the loop of execute_rename
RenameStep ==
  /\ pc = "renaming"
  /\ row <= Len(files)
  /\ IF files[row].original_name = files[row].new_name
     THEN SkipItem
     ELSE RenameItem(files[row],
                     RenameError(fs, os_name, files[row].path, files[row].new_name))
  /\ UNCHANGED <<os_name, files, config, uncaught, pc, fs0, runs>>

\* MainWindow.execute_rename after the loop: load_directory, refresh_preview
\* and the result message
ExecuteEnd ==
  /\ pc = "renaming"
  /\ row > Len(files)
  /\ \E fl \in Listings(fs) :
       Previewed(UpdatePreviews(fl, config))
  /\ pc' = "idle"
  /\ row' = 0
  /\ success_count' = 0
  /\ errors' = <<>>
  /\ renames' = <<>>
  /\ fs0' = {}
  /\ UNCHANGED <<fs, os_name, config, runs>>

Next ==
  \/ OnTreeClicked
  \/ \E cfg \in UiConfigs : RefreshPreview(cfg)
  \/ ExecuteBegin
  \/ RenameStep
  \/ ExecuteEnd

Spec == Init /\ [][Next]_vars

\* the engine alone: a directory and a setting are given, and a click on the
\* directory applies process to every file listed
InitEngine ==
  /\ fs \in {{[name |-> n, id |-> n] : n \in d} : d \in Directories(EngineNames, MaxBatch)}
  /\ os_name = "posix"
  /\ files = <<>>
  /\ config \in EngineConfigs
  /\ uncaught = "none"
  /\ pc = "idle"
  /\ row = 0
  /\ success_count = 0
  /\ errors = <<>>
  /\ renames = <<>>
  /\ fs0 = {}
  /\ runs = 0

NextEngine == OnTreeClicked

SpecEngine == InitEngine /\ [][NextEngine]_vars

(***************************************************************************)
(* Properties.  Positions are the 1-based rows of the table.               *)
(***************************************************************************)
\* the rows whose planned name differs from the present one
ChangedRows == {i \in 1..Len(files) : files[i].new_name # files[i].original_name}

\* the loop of execute_rename has gone through every row
LoopDone == pc = "renaming" /\ row > Len(files)

\* the calls of os.rename that raised
FailedCalls == {k \in 1..Len(renames) : renames[k].error # "none"}

\* the row is marked as a collision, by its brush or by its Status cell
CollisionMarked(i) ==
  PlanStatus(files, i) = "Collision" \/ DisplayStatus(files, i) = "Collision"

AName == <<"a", ".", "t", "x", "t">>

BName == <<"b", ".", "t", "x", "t">>

AAName == <<"a", "a", ".", "t", "x", "t">>

\* C1: process is total: for every file name, configuration and position it
\* returns a string and never raises, an invalid pattern or replacement
\* leaving the stem as it was
C1_ProcessTotal ==
  /\ uncaught = "none"
  /\ \A i \in 1..Len(files) :
       Process(files[i].original_name, config, i).exc = "none"

\* C2: when exactly one os.rename of a run fails, the loop still attempts
\* every changed row, the other renames succeed and are counted, and exactly
\* one failure is reported, under the name of the failing row
C2_PartialFailureTolerant ==
  (LoopDone /\ Cardinality(FailedCalls) = 1) =>
    /\ \A i \in ChangedRows : \E k \in 1..Len(renames) : renames[k].row = i
    /\ success_count = Cardinality(ChangedRows) - 1
    /\ Len(errors) = 1
    /\ \A k \in FailedCalls : errors[1].name = files[renames[k].row].original_name

\* three changed rows, the middle one failing, the ones before and after it renamed
C2_Witness ==
  /\ LoopDone
  /\ Len(renames) = 3
  /\ FailedCalls = {2}
  /\ success_count = 2
  /\ Len(errors) = 1

\* C3: whenever two rows have the same planned name, every row of the group
\* is marked as a collision
C3_CollisionSymmetric ==
  \A i, j \in 1..Len(files) :
    (i # j /\ files[i].new_name = files[j].new_name) =>
      (CollisionMarked(i) /\ CollisionMarked(j))

\* C4: a.txt and b.txt listed in this order, numbered as a suffix from 1 in
\* steps of 1, padded to 2 digits after "_", are planned as a_01.txt and b_02.txt
C4_EndToEndNumbering ==
  ( /\ pc = "idle"
    /\ uncaught = "none"
    /\ Len(files) = 2
    /\ files[1].original_name = AName
    /\ files[2].original_name = BName
    /\ config = [DefaultConfig EXCEPT !.num_mode = "Suffix", !.num_start = 1,
                                      !.num_incr = 1, !.num_pad = 2, !.num_sep = <<"_">>] )
  => ( /\ files[1].new_name = <<"a", "_", "0", "1", ".", "t", "x", "t">>
       /\ files[2].new_name = <<"b", "_", "0", "2", ".", "t", "x", "t">> )

\* every rule of the configuration is switched off; the fields a switched-off
\* rule does not read may hold anything
IsIdentity(cfg) ==
  [cfg EXCEPT !.regex_replace = DefaultConfig.regex_replace,
              !.regex_simple = DefaultConfig.regex_simple,
              !.name_fixed = DefaultConfig.name_fixed,
              !.replace_with = DefaultConfig.replace_with,
              !.replace_case = DefaultConfig.replace_case,
              !.add_at_pos = DefaultConfig.add_at_pos,
              !.num_start = DefaultConfig.num_start,
              !.num_incr = DefaultConfig.num_incr,
              !.num_pad = DefaultConfig.num_pad,
              !.num_sep = DefaultConfig.num_sep,
              !.num_at = DefaultConfig.num_at,
              !.ext_fixed = DefaultConfig.ext_fixed] = DefaultConfig

\* C5: under a configuration with every rule switched off, process returns
\* the file name it was given, at every position, and the preview shows it
C5_IdentityNoOp ==
  IsIdentity(config) =>
    \A i \in 1..Len(files) :
      /\ Process(files[i].original_name, config, i)
           = [exc |-> "none", val |-> files[i].original_name]
      /\ files[i].new_name = files[i].original_name

\* a name of several dots and a name ending in a dot, previewed under an
\* identity configuration other than the default one
C5_Witness ==
  /\ IsIdentity(config)
  /\ config # DefaultConfig
  /\ Len(files) = 2
  /\ files[1].original_name
       = <<"a", "r", "c", "h", "i", "v", "e", ".", "t", "a", "r", ".", "g", "z">>
  /\ files[2].original_name = <<"a", ".">>
  /\ files[2].new_name = <<"a", ".">>

C7_SkipUnchanged ==
  [][ ( /\ pc = "renaming"
        /\ row <= Len(files)
        /\ files[row].original_name = files[row].new_name )
      => ( /\ fs' = fs
           /\ success_count' = success_count
           /\ errors' = errors
           /\ renames' = renames ) ]_vars

\* a finished loop over an unchanged row and a renamed one
C7_Witness ==
  /\ LoopDone
  /\ Len(files) = 2
  /\ ChangedRows = {2}
  /\ success_count = 1
  /\ Len(renames) = 1
  /\ files[1].original_name \in NameSet(fs)

\* C8: whenever the window is at rest, every row's planned name is what
\* process returns for its present name, the configuration last set and its
\* position, whatever was previewed before; its path and present name are
\* those of the listing
C8_PreviewRecomputed ==
  pc = "idle" =>
    \A i \in 1..Len(files) :
      /\ Process(files[i].original_name, config, i).exc = "none"
      /\ files[i].new_name = Process(files[i].original_name, config, i).val
      /\ files[i].path = files[i].original_name

\* the number a string of digits writes
RECURSIVE ParseNat(_)
ParseNat(s) ==
  IF s = <<>> THEN 0
  ELSE 10 * ParseNat(SubSeq(s, 1, Len(s) - 1)) + (IndexIn(s[Len(s)], Digits) - 1)

\* only the numbering rule is switched on
OnlyNumbering(cfg) ==
  /\ cfg.num_mode # "None"
  /\ IsIdentity([cfg EXCEPT !.num_mode = "None"])

\* the number of characters of the planned name before the number
TokenStart(cfg, name) ==
  CASE cfg.num_mode = "Prefix" -> 0
    [] cfg.num_mode = "Suffix" -> Len(PathStem(name)) + Len(cfg.num_sep)
    [] OTHER -> Min(cfg.num_at, Len(PathStem(name)))

\* the number of characters of the planned name after the number
TokenEnd(cfg, name) ==
  CASE cfg.num_mode = "Prefix" -> Len(cfg.num_sep) + Len(name)
    [] cfg.num_mode = "Suffix" -> Len(PathSuffix(name))
    [] OTHER -> Len(cfg.num_sep) + Len(name) - Min(cfg.num_at, Len(PathStem(name)))

\* the number written into the planned name of the row
RenderedToken(i) ==
  SubSeq(files[i].new_name,
         TokenStart(config, files[i].original_name) + 1,
         Len(files[i].new_name) - TokenEnd(config, files[i].original_name))

\* C9: with numbering on and a positive increment, the number written into
\* the name at position i is start + i * increment, so the numbers of a batch
\* strictly increase with the position and no two are equal
C9_NumberingMonotone ==
  (OnlyNumbering(config) /\ config.num_incr > 0) =>
    /\ \A i \in 1..Len(files) :
         ParseNat(RenderedToken(i)) = config.num_start + i * config.num_incr
    /\ \A i, j \in 1..Len(files) :
         i < j => ParseNat(RenderedToken(i)) < ParseNat(RenderedToken(j))

\* two files numbered 11 and 13 after their stems
C9_Witness ==
  /\ OnlyNumbering(config)
  /\ config.num_mode = "Suffix"
  /\ config.num_start = 9
  /\ config.num_incr = 2
  /\ Len(files) = 2
  /\ RenderedToken(1) = <<"1", "1">>
  /\ RenderedToken(2) = <<"1", "3">>

\* C10: in a run over a plan without a collision, no call of os.rename
\* targets a name that a file holds at that moment, and every file of the
\* directory is still there afterwards, under its old or its new name
C10_NoFileDestroyed ==
  (pc = "renaming" /\ \A i \in 1..Len(files) : ~CollisionMarked(i)) =>
    /\ \A k \in 1..Len(renames) : ~renames[k].existed
    /\ Cardinality(fs) = Cardinality(fs0)
    /\ \A f \in fs0 : \E g \in fs : g.id = f.id

\* the changed rows the loop has gone through
ProcessedRows == {i \in ChangedRows : i < row}

\* C11: during a run the calls of os.rename are one per changed row gone
\* through, in the order of the rows, each from the row's path to its planned
\* name in the same directory; successes plus recorded failures count the
\* changed rows gone through, all changed rows at the end of the loop, and
\* the failures are listed in the order of the rows
C11_ExecutionAccounting ==
  pc = "renaming" =>
    /\ Len(renames) = Cardinality(ProcessedRows)
    /\ \A k \in 1..Len(renames) :
         /\ renames[k].row \in ProcessedRows
         /\ renames[k].src = files[renames[k].row].path
         /\ renames[k].dst = files[renames[k].row].new_name
    /\ \A k, l \in 1..Len(renames) : k < l => renames[k].row < renames[l].row
    /\ success_count + Len(errors) = Cardinality(ProcessedRows)
    /\ success_count = Len(renames) - Cardinality(FailedCalls)
    /\ LoopDone => success_count + Len(errors) = Cardinality(ChangedRows)
    /\ Len(errors) = Cardinality(FailedCalls)
    /\ \A k \in FailedCalls :
         errors[Cardinality({j \in FailedCalls : j <= k})].name
           = files[renames[k].row].original_name

\* a finished loop over three changed rows: the first and the third rename
\* failed, the second one succeeded
C11_Witness ==
  /\ LoopDone
  /\ Len(files) = 3
  /\ FailedCalls = {1, 3}
  /\ success_count = 1
  /\ Len(errors) = 2
  /\ errors[1].name = files[1].original_name
  /\ errors[2].name = files[3].original_name

\* only the from/to range removal is switched on
OnlyRange(cfg) ==
  /\ cfg.remove_from > 0 \/ cfg.remove_to > 0
  /\ IsIdentity([cfg EXCEPT !.remove_from = 0, !.remove_to = 0])

\* the first and the last 1-based position of the range from..to in a stem of
\* n characters: from = 0 is 1, to = 0 is the end, a to beyond the end is the end
RangeLo(from) == IF from = 0 THEN 1 ELSE from

RangeHi(to, n) == IF to = 0 THEN n ELSE Min(to, n)

\* the positions of stem outside the range, in order
KeptPositions(stem, from, to) ==
  {i \in 1..Len(stem) : ~(RangeLo(from) <= i /\ i <= RangeHi(to, Len(stem)))}

\* the stem with the characters of the range deleted and the others kept once
RECURSIVE KeepFrom(_, _, _)
KeepFrom(stem, kept, i) ==
  IF i > Len(stem) THEN <<>>
  ELSE (IF i \in kept THEN <<stem[i]>> ELSE <<>>) \o KeepFrom(stem, kept, i + 1)

WithoutRange(stem, from, to) == KeepFrom(stem, KeptPositions(stem, from, to), 1)

\* C12: for every stem and every from, to >= 0 not both 0, to beyond the stem
\* and from > to included, range removal returns the stem without the
\* characters at the 1-based positions from..to, the others kept once and in
\* order; the result is never longer than the stem, and the planned name is
\* that result followed by the extension
C12_RangeRemoval ==
  OnlyRange(config) =>
    \A i \in 1..Len(files) :
      /\ RemoveRange(config, PathStem(files[i].original_name))
           = WithoutRange(PathStem(files[i].original_name),
                          config.remove_from, config.remove_to)
      /\ Len(RemoveRange(config, PathStem(files[i].original_name)))
           <= Len(PathStem(files[i].original_name))
      /\ files[i].new_name
           = WithoutRange(PathStem(files[i].original_name),
                          config.remove_from, config.remove_to)
               \o PathSuffix(files[i].original_name)

ArchiveName == <<"a", "r", "c", "h", "i", "v", "e", ".", "t", "a", "r", ".", "g", "z">>

DotName == <<".", "g", "i", "t", "i", "g", "n", "o", "r", "e">>

\* what process returns for the name under the configuration with the
\* extension removed: the transformed stem alone
StemResult(name, cfg, index) == Process(name, [cfg EXCEPT !.ext_mode = "Remove"], index)

\* C13: a name is split once, at its last dot, into stem and extension
\* (archive.tar.gz into archive.tar and .gz, .gitignore into .gitignore and
\* nothing); whenever process returns under extension mode Same, the result
\* is the transformed stem followed by the original extension; and under
\* every extension mode the result begins with the same transformed stem
C13_StemExtSeparation ==
  /\ PathStem(ArchiveName) = SubSeq(ArchiveName, 1, Len(ArchiveName) - 3)
  /\ PathSuffix(ArchiveName) = <<".", "g", "z">>
  /\ PathStem(DotName) = DotName
  /\ PathSuffix(DotName) = <<>>
  /\ \A i \in 1..Len(files) :
       /\ PathStem(files[i].original_name) \o PathSuffix(files[i].original_name)
            = files[i].original_name
       /\ \A k \in 2..Len(PathSuffix(files[i].original_name)) :
            PathSuffix(files[i].original_name)[k] # "."
       /\ Process(files[i].original_name, config, i).exc = "none" =>
            /\ files[i].new_name = Process(files[i].original_name, config, i).val
            /\ StemResult(files[i].original_name, config, i).exc = "none"
            /\ SubSeq(files[i].new_name, 1,
                      Len(StemResult(files[i].original_name, config, i).val))
                 = StemResult(files[i].original_name, config, i).val
            /\ config.ext_mode = "Same" =>
                 files[i].new_name
                   = StemResult(files[i].original_name, config, i).val
                       \o PathSuffix(files[i].original_name)

\* archive.tar.gz previewed with its stem reversed and its extension kept
C13_Witness ==
  /\ config.ext_mode = "Same"
  /\ config.name_mode = "Reverse"
  /\ Len(files) = 2
  /\ files[2].original_name = ArchiveName
  /\ files[2].new_name
       = <<"r", "a", "t", ".", "e", "v", "i", "h", "c", "r", "a", ".", "g", "z">>

\* title case is switched on, with at most additions and numbering before it
OnlyTitle(cfg) ==
  /\ cfg.case_mode = "Title"
  /\ IsIdentity([cfg EXCEPT !.case_mode = "Same", !.add_prefix = <<>>, !.add_suffix = <<>>,
                            !.add_insert = <<>>, !.num_mode = "None"])

\* the stem the case rule is given: the one after insertion and numbering
StemBeforeCase(i) ==
  NumberingStage(config, AddStage(config, PathStem(files[i].original_name)), i)

IsLetter(c) == c \in Range(Lowers) \cup Range(Uppers)

\* the first letter of each word set off by whitespace upper-cased, every
\* other character kept
WordCapitalized(s) ==
  [k \in 1..Len(s) |-> IF k = 1 \/ s[k - 1] = " " THEN UpperChar(s[k]) ELSE s[k]]

\* a letter upper-cased when no letter stands before it, lower-cased when one
\* does, every other character kept
LetterRunCapitalized(s) ==
  [k \in 1..Len(s) |->
     CASE ~IsLetter(s[k]) -> s[k]
       [] k > 1 /\ IsLetter(s[k - 1]) -> LowerChar(s[k])
       [] OTHER -> UpperChar(s[k])]

\* C14: title case, applied to the stem after insertion and numbering,
\* upper-cases the first letter of each word set off by whitespace and changes
\* nothing else: a letter after a letter, a digit, "_", "-" or "." keeps its case
C14_TitleWhitespaceWords ==
  OnlyTitle(config) =>
    \A i \in 1..Len(files) :
      files[i].new_name
        = WordCapitalized(StemBeforeCase(i)) \o PathSuffix(files[i].original_name)

\* C14, as the code has it: title case, applied to the stem after insertion
\* and numbering, upper-cases every letter that is the first character or
\* follows a character that is not a letter (whitespace, a digit, "_", "-",
\* "."), lower-cases every letter that follows a letter, and changes nothing
\* else; the extension is left alone
C14_TitleLetterRuns ==
  OnlyTitle(config) =>
    \A i \in 1..Len(files) :
      files[i].new_name
        = LetterRunCapitalized(StemBeforeCase(i)) \o PathSuffix(files[i].original_name)

\* "aB c_d1e.TxT" at position 1 with the suffix " xY-z" and the number 2 in
\* front, in title case
C14_Witness ==
  /\ OnlyTitle(config)
  /\ config.num_mode = "Prefix"
  /\ config.add_suffix # <<>>
  /\ Len(files) = 1
  /\ files[1].original_name = <<"a", "B", " ", "c", "_", "d", "1", "e", ".", "T", "x", "T">>
  /\ files[1].new_name
       = <<"2", "A", "b", " ", "C", "_", "D", "1", "E", " ", "X", "y", "-", "Z",
           ".", "T", "x", "T">>

====
